---- MODULE Spec2Model ----
(***************************************************************************)
(* Model of the vcc installer (src/main.py): one interactive, sequential   *)
(* provisioning run, repeated runs on the same host, the file system under *)
(* the installation root, the process's output streams and the rendering   *)
(* of supervisord.conf.                                                    *)
(*                                                                         *)
(* Text is modelled as a sequence of chunks (strings).  A replacement      *)
(* field of the template is one chunk such as "{IP}"; an operator may      *)
(* type the very same chunk into a prompt.                                 *)
(***************************************************************************)
EXTENDS Integers, Sequences, FiniteSets, TLC

(* ------------------------------ bounds --------------------------------- *)
\* unrecognised answers tolerated by one yes/no prompt before the model stops feeding them
MaxRetries == 1
\* number of installer processes started on the host
MaxRuns == 2

(* --------------------------- text helpers ------------------------------ *)
RECURSIVE Count(_, _)
Count(s, S) ==
    IF s = <<>> THEN 0
    ELSE (IF Head(s) \in S THEN 1 ELSE 0) + Count(Tail(s), S)

Contains(s, S) == \E i \in 1..Len(s) : s[i] \in S

\* what an operator may type at the username and hostname prompts: nothing,
\* an ordinary value, a value that contains the text of a replacement field
Values == { <<>>, << "a" >>, << "{IP}", "a" >> }
\* what an operator may type at the password prompt; "p" occurs nowhere else
Secrets == { <<>>, << "p" >>, << "{IP}", "p" >> }
\* the password of the twin run: some other password than s
TwinSecret(s) == IF s = <<>> THEN << "p" >> ELSE Tail(s)
SecretOnly == {"p"}

(* ------------------------- supervisord.conf ---------------------------- *)
\* src/main.py:99-168, the replacement fields kept as single chunks
supervisord_text_base == <<
    "[unix_http_server]", "[supervisord]",
    "MINIO_ROOT_USER=", "{MINIO_USER}",
    "MINIO_ROOT_PASSWORD=", "{MINIO_PASSWORD}",
    "MINIO_URL=", "{IP}", ":9000",
    "MINIO_ACCESS=", "{MINIO_USER}",
    "MINIO_SECRET=", "{MINIO_PASSWORD}",
    "[rpcinterface:supervisor]", "[supervisorctl]",
    "[program:vcc_rpc]", "{PYTHON_EXECUTABLE}", "./vcc_rpc/server/main.py",
    "[group:services]",
    "[program:login]", "{PYTHON_EXECUTABLE}", "./vcc_rpc/services/login.py",
    "[program:chat]", "{PYTHON_EXECUTABLE}", "./vcc_rpc/services/chat.py",
    "[program:file]", "{PYTHON_EXECUTABLE}", "./vcc_rpc/services/file.py",
    "[program:record]", "{PYTHON_EXECUTABLE}", "./vcc_rpc/services/record.py",
    "[group:gateways]",
    "[program:web]", "{PYTHON_EXECUTABLE}", "./web-vcc/backend/main.py" >>

\* src/main.py:170-178
supervisord_minio_text == << "[program:minio]", "./minio server ./data" >>

\* the replacement fields str.format_map recognises in the template
Markers == {"{MINIO_USER}", "{MINIO_PASSWORD}", "{IP}", "{PYTHON_EXECUTABLE}"}

sys_executable == << "/usr/bin/python3" >>

\* src/main.py:198-203, the mapping handed to format_map
FormatArgs(user, password, host) ==
    [k \in Markers |->
        CASE k = "{MINIO_USER}" -> user
          [] k = "{MINIO_PASSWORD}" -> password
          [] k = "{IP}" -> host
          [] OTHER -> sys_executable]

\* a renderer that replaces one field after the other over the whole text,
\* so that text inserted for an earlier field is scanned again
RECURSIVE ReplaceAll(_, _, _)
ReplaceAll(t, k, v) ==
    IF t = <<>> THEN <<>>
    ELSE (IF Head(t) = k THEN v ELSE <<Head(t)>>) \o ReplaceAll(Tail(t), k, v)

format_map_sequential(t, m) ==
    ReplaceAll(ReplaceAll(ReplaceAll(ReplaceAll(t,
        "{MINIO_USER}", m["{MINIO_USER}"]),
        "{MINIO_PASSWORD}", m["{MINIO_PASSWORD}"]),
        "{IP}", m["{IP}"]),
        "{PYTHON_EXECUTABLE}", m["{PYTHON_EXECUTABLE}"])

\* str.format_map: one left-to-right pass over the template; every field is
\* replaced by its value, and the inserted value is not scanned
RECURSIVE format_map(_, _)
format_map(t, m) ==
    IF t = <<>> THEN <<>>
    ELSE (IF Head(t) \in DOMAIN m THEN m[Head(t)] ELSE <<Head(t)>>)
         \o format_map(Tail(t), m)

(* ------------------------------ paths ---------------------------------- *)
\* a path is its sequence of components; an absolute one starts with "/"
Home == << "/", "home", "op" >>
\* src/main.py:53-54
DefaultPath == Home \o << ".vcc" >>
MissingParentPath == << "/", "missing", "vcc" >>
\* what the operator types at the path prompt; <<>> is the empty line
PathInputs == { <<>>, << ".vcc" >>, MissingParentPath }
InstallPaths == { DefaultPath, MissingParentPath }
\* directories of the host that exist outside the installation roots
HostDirs == { Home }

\* Path.absolute(): an absolute path is kept, a relative one is joined to cwd
Absolute(c, p) == IF p # <<>> /\ Head(p) = "/" THEN p ELSE c \o p
Parent(p) == SubSeq(p, 1, Len(p) - 1)

(* ------------------------------ modes ---------------------------------- *)
OwnerRWX == {"ur", "uw", "ux"}
GroupOther == {"gr", "gw", "gx", "or", "ow", "ox"}
\* the umask of the installer process: 0o000 or 0o022
Umasks == { {}, {"gw", "ow"} }
\* mode of an entry created with a requested mode under a umask
CreateMode(requested, um) == requested \ um

\* Path.touch() without a mode argument would ask for 0o666
DefaultTouchMode == {"ur", "uw", "gr", "gw", "or", "ow"}
\* src/main.py:190 and 206: touch(0o700)
TouchMode == OwnerRWX
\* src/main.py:61: mkdir(0o700)
MkdirMode == OwnerRWX

(* ---------------------------- file system ------------------------------ *)
NoFile == [kind |-> "absent", mode |-> {}, data |-> <<>>]
NoDir == [kind |-> "absent", ino |-> 0, mode |-> {}, kids |-> {},
          minio |-> NoFile, conf |-> NoFile]
\* a directory that was at the path before the first run, not made by the installer
ForeignDir == [kind |-> "dir", ino |-> 0, mode |-> OwnerRWX \cup {"gr", "gx", "or", "ox"},
               kids |-> {"old"}, minio |-> NoFile, conf |-> NoFile]
NewDir(mode, ino) == [kind |-> "dir", ino |-> ino, mode |-> mode, kids |-> {},
                      minio |-> NoFile, conf |-> NoFile]

\* Path.is_file(): true of a regular file only, so false of a directory
IsFile(f, p) == p \in DOMAIN f /\ f[p].kind = "file"
\* Path.exists()
Exists(f, p) == p \in DOMAIN f /\ f[p].kind = "dir"
\* whether mkdir(p) can succeed: the parent is an existing directory
ParentExists(p) == Parent(p) \in HostDirs

\* Path.touch(mode): creates the file with the mode if absent, keeps an existing file
Touched(file, mode, um) ==
    IF file.kind = "file" THEN file
    ELSE [kind |-> "file", mode |-> CreateMode(mode, um), data |-> <<>>]
\* Path.write_bytes / write_text: replaces the content, keeps the mode of an
\* existing file; a file it has to create gets 0o666 under the umask
Written(file, data, um) ==
    IF file.kind = "file" THEN [file EXCEPT !.data = data]
    ELSE [kind |-> "file", mode |-> CreateMode(DefaultTouchMode, um), data |-> data]

(* ------------------------------ network -------------------------------- *)
\* bodies the IP-echo endpoint can answer with: with and without final newline
IpBodies == { << "203.0.113.", "7", "\n" >>, << "203.0.113.", "7" >> }
\* bytes[:-1]
ButLast(s) == IF s = <<>> THEN <<>> ELSE SubSeq(s, 1, Len(s) - 1)
\* what the operator types at the architecture prompt
Architectures == { "amd64", "riscv" }
\* bodies the download endpoint can answer with: a binary or an error page
MinioBodies == { << "ELF" >>, << "<Error>" >> }
IpUrl == << "https://checkip.amazonaws.com" >>
MinioUrl(arch) == << "https://dl.min.io/server/minio/release/linux-", arch, "/minio" >>
\* src/main.py:48
GitUrl(ssh, project) ==
    IF ssh THEN << "git@github.com:vcc-chat/", project, ".git" >>
    ELSE << "https://github.com/vcc-chat/", project, ".git" >>

(* ------------------------------- state --------------------------------- *)
VARIABLES
    version_ok,         \* sys.version_info >= (3, 10) on this host
    platform_linux,     \* sys.platform.startswith("linux") on this host
    umask,              \* umask the installer process is started with
    fs,                 \* installation roots: path -> directory entry
    cwd,                \* working directory of the process
    runs,               \* number of the current installer process on this host
    pc,                 \* source line the process is at, "exit" once it has terminated
    phase,              \* position inside a print_text step: idle, action, action2, leaving
    exc,                \* what the step's action raised
    retries,            \* unrecognised answers given to the current yes/no prompt
    sys_stdout,         \* what sys.stdout is bound to: real or devnull
    sys_stderr,         \* what sys.stderr is bound to: real or devnull
    stdout,             \* everything written to the real output stream
    stderr,             \* everything written to the real error stream (and the terminal by getpass)
    twin_stdout,        \* output stream of the same run given twin_password instead
    twin_stderr,        \* error stream of the same run given twin_password instead
    use_ssh,
    install_path,
    is_minio_installed,
    default_public_ip,
    architecture,
    supervisord_text,
    minio_username,
    minio_password,
    twin_password,      \* the password typed in the twin run, which differs from minio_password
    minio_hostname,
    exit_status,        \* -1 while running, then the process's exit status
    events,             \* what the process has done so far, in order
    typed_lines,        \* a prompt function called alone: the lines the operator types
    given_default,      \* a prompt function called alone: its default argument
    returned            \* a prompt function called alone: <<>>, then << its result >>

hostv == << version_ok, platform_linux, umask >>
streams == << stdout, stderr, twin_stdout, twin_stderr >>
redirection == << sys_stdout, sys_stderr >>
stepv == << phase, exc >>
answers == << use_ssh, install_path, is_minio_installed, default_public_ip,
              architecture, supervisord_text, minio_username, minio_password,
              twin_password, minio_hostname >>
callv == << typed_lines, given_default, returned >>
vars == << hostv, fs, cwd, runs, pc, stepv, retries, redirection, streams,
           answers, exit_status, events, callv >>

NoExc == [kind |-> "none", detail |-> ""]
Ev(k, v) == [k |-> k, v |-> v]

\* print(text, file=stream): appended to the real stream unless redirected
Emit(target, log, text) == IF target = "real" THEN log \o text ELSE log

(* ------------------------- prompt primitives --------------------------- *)
\* what the operator may answer to a yes/no prompt
Answers == { "y", "Y", "n", "N", "", "yes" }
\* a comparison that does not lower the answer first
LowerNone(a) == a
\* str.lower() on those answers
Lower(a) == CASE a = "Y" -> "y" [] a = "N" -> "n" [] OTHER -> a
\* src/main.py:15-18: the answers on which yes_or_no_question returns
Recognised(a) == Lower(a) = "y" \/ Lower(a) = "n" \/ Lower(a) = ""
\* src/main.py:15-18: the value it returns on a recognised answer
yes_or_no_question(a) == Lower(a) = "y"
\* src/main.py:14 and 19
YesNoPrompt(prompt) == << prompt, " (y/N): " >>
PleaseEnter == << "Please enter y or n. " >>
\* a prompt whose two branches are exchanged
input_with_default_swapped(result, default) == IF result # <<>> THEN default ELSE result
\* src/main.py:21-23
input_with_default(result, default) == IF result # <<>> THEN result ELSE default
DefaultPrompt(prompt, default) == << prompt, " [" >> \o default \o << "]: " >>

\* a secret prompt that writes the typed secret after the prompt
EchoingWrites(prompt, secret) == << prompt >> \o secret
\* getpass(prompt): writes the prompt, reads the secret without writing it
GetpassWrites(prompt, secret) == << prompt >>

PromptLines == { "L33", "L58", "L94", "L187", "L193", "L194", "L196" }
\* the text the prompt at a line writes before it reads
PromptText(line) ==
    CASE line = "L33" -> YesNoPrompt("Use ssh for git clone?")
      [] line = "L58" -> DefaultPrompt("Where do you want to install vcc?", DefaultPath)
      [] line = "L94" -> YesNoPrompt("Have you installed minio and started it already?")
      [] line = "L187" -> << "What's your machine's architecture?" >>
      [] line = "L193" -> << "Enter your new username for minio: " >>
      [] line = "L194" -> << "Enter your new password for minio: " >>
      [] OTHER -> DefaultPrompt("What's you preferred host name for minio?", default_public_ip)

(* --------------------------- process exits ----------------------------- *)
\* an exit that reports the message but ends with status 0
ExitStatusZero(msg) == 0
\* the exit status of SystemExit(message) with a string message, and of an
\* uncaught exception
ExitStatusOf(msg) == 1

\* a check that prints its message and goes on with the next statement
SystemExitWarnOnly(msg) ==
    /\ pc' = (CASE pc = "L25" -> "L28" [] pc = "L28" -> "L33" [] OTHER -> "L61")
    /\ exit_status' = exit_status
    /\ stderr' = Emit(sys_stderr, stderr, << msg >>)
    /\ twin_stderr' = Emit(sys_stderr, twin_stderr, << msg >>)
\* raise SystemExit(message) reaching the top level: the message goes to
\* sys.stderr and the status is 1
SystemExitWith(msg) ==
    /\ pc' = "exit"
    /\ exit_status' = ExitStatusOf(msg)
    /\ stderr' = Emit(sys_stderr, stderr, << msg >>)
    /\ twin_stderr' = Emit(sys_stderr, twin_stderr, << msg >>)

\* an exception no handler catches: traceback on sys.stderr, status 1
Uncaught(name) ==
    /\ pc' = "exit"
    /\ exit_status' = ExitStatusOf(name)
    /\ stderr' = Emit(sys_stderr, stderr, << "Traceback", name >>)
    /\ twin_stderr' = Emit(sys_stderr, twin_stderr, << "Traceback", name >>)

(* -------------------------------- Init --------------------------------- *)
ProcInit ==
    /\ cwd = Home
    /\ pc = "L25"
    /\ phase = "idle"
    /\ exc = NoExc
    /\ retries = 0
    /\ sys_stdout = "real"
    /\ sys_stderr = "real"
    /\ stdout = <<>>
    /\ stderr = <<>>
    /\ twin_stdout = <<>>
    /\ twin_stderr = <<>>
    /\ use_ssh = FALSE
    /\ install_path = <<>>
    /\ is_minio_installed = FALSE
    /\ default_public_ip = <<>>
    /\ architecture = ""
    /\ supervisord_text = supervisord_text_base
    /\ minio_username = <<>>
    /\ minio_password = <<>>
    /\ twin_password = <<>>
    /\ minio_hostname = <<>>
    /\ exit_status = -1
    /\ events = <<>>

Init ==
    /\ version_ok \in BOOLEAN
    /\ platform_linux \in BOOLEAN
    /\ umask \in Umasks
    /\ fs \in { [p \in InstallPaths |-> IF p = DefaultPath THEN d ELSE NoDir] :
                d \in { NoDir, ForeignDir } }
    /\ runs = 1
    /\ ProcInit
    /\ typed_lines = <<>>
    /\ given_default = <<>>
    /\ returned = <<>>

(* ------------------------- startup, lines 25-62 ------------------------ *)
Say(text) ==
    /\ stdout' = Emit(sys_stdout, stdout, text)
    /\ twin_stdout' = Emit(sys_stdout, twin_stdout, text)

\* src/main.py:25-26
CheckVersion ==
    /\ pc = "L25"
    /\ events' = Append(events, Ev("init", << "L25" >>))
    /\ IF version_ok
       THEN pc' = "L28" /\ UNCHANGED << exit_status, stderr, twin_stderr >>
       ELSE SystemExitWith("vcc requires at least python3.10")
    /\ UNCHANGED << callv, hostv, fs, cwd, runs, stepv, retries, redirection,
                    stdout, twin_stdout, answers >>

\* src/main.py:28-31
CheckPlatform ==
    /\ pc = "L28"
    /\ IF platform_linux
       THEN pc' = "L33" /\ UNCHANGED << exit_status, stderr, twin_stderr >>
       ELSE SystemExitWith("vcc requires linux")
    /\ UNCHANGED << callv, hostv, fs, cwd, runs, stepv, retries, redirection,
                    stdout, twin_stdout, answers, events >>

\* src/main.py:33 (and 35: the pool manager is created, nothing is requested)
AskUseSsh ==
    /\ pc = "L33"
    /\ \E a \in Answers :
        /\ events' = Append(events, Ev("prompt", << "L33" >>))
        /\ IF Recognised(a)
           THEN /\ use_ssh' = yes_or_no_question(a)
                /\ pc' = "L58"
                /\ retries' = 0
                /\ Say(PromptText("L33"))
           ELSE /\ retries < MaxRetries
                /\ retries' = retries + 1
                /\ Say(PromptText("L33") \o PleaseEnter)
                /\ UNCHANGED << use_ssh, pc >>
    /\ UNCHANGED << callv, hostv, fs, cwd, runs, stepv, redirection, stderr, twin_stderr,
                    install_path, is_minio_installed, default_public_ip,
                    architecture, supervisord_text, minio_username,
                    minio_password, twin_password, minio_hostname, exit_status >>

\* src/main.py:52-58
get_install_path ==
    /\ pc = "L58"
    /\ \E typed \in PathInputs :
        install_path' = Absolute(cwd, input_with_default(typed, DefaultPath))
    /\ Say(PromptText("L58"))
    /\ events' = Append(events, Ev("prompt", << "L58" >>))
    /\ pc' = "L59"
    /\ UNCHANGED << callv, hostv, fs, cwd, runs, stepv, retries, redirection, stderr,
                    twin_stderr, use_ssh, is_minio_installed, default_public_ip,
                    architecture, supervisord_text, minio_username,
                    minio_password, twin_password, minio_hostname, exit_status >>

\* src/main.py:59-60
CheckNotInstalled ==
    /\ pc = "L59"
    /\ IF Exists(fs, install_path)
       THEN SystemExitWith("vcc has already been installed")
       ELSE pc' = "L61" /\ UNCHANGED << exit_status, stderr, twin_stderr >>
    /\ UNCHANGED << callv, hostv, fs, cwd, runs, stepv, retries, redirection,
                    stdout, twin_stdout, answers, events >>

\* src/main.py:61-62
MakeInstallDir ==
    /\ pc = "L61"
    /\ IF ParentExists(install_path)
       THEN /\ fs' = [fs EXCEPT ![install_path] = NewDir(CreateMode(MkdirMode, umask), runs)]
            /\ cwd' = install_path
            /\ pc' = "L79"
            /\ events' = Append(events, Ev("fs", << "mkdir", "." >>))
            /\ UNCHANGED << exit_status, stderr, twin_stderr >>
       ELSE /\ Uncaught("FileNotFoundError")
            /\ UNCHANGED << fs, cwd, events >>
    /\ UNCHANGED << callv, hostv, runs, stepv, retries, redirection, stdout,
                    twin_stdout, answers >>

(* ----------------------- print_text, lines 64-77 ----------------------- *)
StepLines == { "L79", "L82", "L85", "L88", "L91", "L96", "L189" }
ToolLines == { "L79", "L82", "L85", "L88", "L91" }

Label(line) ==
    CASE line = "L79" -> "Cloning vcc_rpc..."
      [] line = "L82" -> "Installing requirements..."
      [] line = "L85" -> "Cloning web-vcc..."
      [] line = "L88" -> "Installing requirements..."
      [] line = "L91" -> "Installing supervisord..."
      [] line = "L96" -> "Getting your public ip address..."
      [] OTHER -> "Downloading minio..."

\* a script in which the two middle steps are written in the other order
AfterSwapped(line) ==
    CASE line = "L79" -> "L85"
      [] line = "L85" -> "L82"
      [] line = "L82" -> "L88"
      [] line = "L88" -> "L91"
      [] line = "L91" -> "L94"
      [] line = "L96" -> "L180"
      [] OTHER -> "L193"
\* the statement that follows the with block of a step
After(line) ==
    CASE line = "L79" -> "L82"
      [] line = "L82" -> "L85"
      [] line = "L85" -> "L88"
      [] line = "L88" -> "L91"
      [] line = "L91" -> "L94"
      [] line = "L96" -> "L180"
      [] OTHER -> "L193"

\* src/main.py:67-71: the label is printed, then both streams are redirected
StepEnter ==
    /\ pc \in StepLines
    /\ phase = "idle"
    /\ Say(<< Label(pc) >>)
    /\ sys_stdout' = "devnull"
    /\ sys_stderr' = "devnull"
    /\ phase' = "action"
    /\ events' = Append(events, Ev("begin", << pc >>))
    /\ UNCHANGED << callv, hostv, fs, cwd, runs, pc, exc, retries, stderr, twin_stderr,
                    answers, exit_status >>

\* an except clause that also reports SystemExit the way it reports exceptions
FailureReportAlways(e) == << " ERROR: e=", e.detail >>
\* src/main.py:73-75 and the interpreter's handling of SystemExit(message):
\* what reaches the error stream when the action of a step raised e
FailureReport(e) ==
    IF e.kind = "Exception" THEN << " ERROR: e=", e.detail >> ELSE << e.detail >>

\* a step runner that goes on with the next statement after a failure
LeaveTargetContinue(line, e) == After(line)
\* src/main.py:73-77: where control goes when the with block is left: to the
\* next statement, or out of the process when the action raised
LeaveTarget(line, e) == IF e.kind = "none" THEN After(line) ELSE "exit"

\* redirections that are undone only when the action returned normally
RestoredOnSuccessOnly(e) == IF e.kind = "none" THEN "real" ELSE "devnull"
\* src/main.py:68-71: what sys.stdout and sys.stderr are bound to once the
\* inner with statement is left, whether the action returned or raised e:
\* the redirect_stdout / redirect_stderr context managers restore the streams
\* on every exit
RestoredStream(e) == "real"

\* src/main.py:72-77: the with block of a step is left.  The redirections
\* are undone first; then " OK" is printed, or the exception is reported and
\* SystemExit(1) raised, or the SystemExit of a tool helper passes through
StepLeave ==
    /\ pc \in StepLines
    /\ phase = "leaving"
    /\ sys_stdout' = RestoredStream(exc)
    /\ sys_stderr' = RestoredStream(exc)
    /\ phase' = "idle"
    /\ pc' = LeaveTarget(pc, exc)
    /\ IF exc.kind = "none"
       THEN /\ stdout' = Emit(sys_stdout', stdout, << " OK" >>)
            /\ twin_stdout' = Emit(sys_stdout', twin_stdout, << " OK" >>)
            /\ events' = Append(events, Ev("ok", << pc >>))
            /\ UNCHANGED << stderr, twin_stderr, exit_status, exc >>
       ELSE /\ stderr' = Emit(sys_stderr', stderr, FailureReport(exc))
            /\ twin_stderr' = Emit(sys_stderr', twin_stderr, FailureReport(exc))
            /\ exit_status' = ExitStatusOf(exc.detail)
            /\ events' = Append(events, Ev("fail", << pc >>))
            /\ exc' = IF pc' = "exit" THEN exc ELSE NoExc
            /\ UNCHANGED << stdout, twin_stdout >>
    /\ UNCHANGED << callv, hostv, fs, cwd, runs, retries, answers >>

(* ------------------ external tools, lines 37-50, 79-92 ----------------- *)
\* the command line handed to subprocess.run at a tool step
Cmd(line) ==
    CASE line = "L79" -> << "git", "clone" >> \o GitUrl(use_ssh, "vcc_rpc")
      [] line = "L82" -> << "pip", "install", "-r", "vcc_rpc/requirements.txt" >>
      [] line = "L85" -> << "git", "clone" >> \o GitUrl(use_ssh, "web-vcc")
      [] line = "L88" -> << "pip", "install", "-r", "web-vcc/backend/requirements.txt" >>
      [] OTHER -> << "pip", "install", "supervisor" >>

\* src/main.py:40, 45, 50
FailMsg(line) ==
    IF line \in { "L79", "L85" } THEN "git clone failed" ELSE "pip install failed"

\* the directory a successful clone leaves in the working directory
Cloned(line) ==
    CASE line = "L79" -> { "vcc_rpc" } [] line = "L85" -> { "web-vcc" } [] OTHER -> {}

\* a tool that never returns
ToolOutcomesNone == {}
\* src/main.py:38-39, 43-44, 48-49: how subprocess.run can end: the tool
\* returned 0, returned nonzero, or could not be started
ToolOutcomes == { "zero", "nonzero", "oserror" }

\* git_clone / pip_install / pip_install_requirements: the tool runs with its
\* output captured; it returns 0, returns nonzero, or cannot be started
RunTool ==
    /\ pc \in ToolLines
    /\ phase = "action"
    /\ events' = Append(events, Ev("tool", Cmd(pc)))
    /\ phase' = "leaving"
    /\ \E outcome \in ToolOutcomes :
        CASE outcome = "zero" ->
                /\ fs' = [fs EXCEPT ![cwd].kids = @ \cup Cloned(pc)]
                /\ exc' = NoExc
          [] outcome = "nonzero" ->
                /\ exc' = [kind |-> "SystemExit", detail |-> FailMsg(pc)]
                /\ UNCHANGED fs
          [] OTHER ->
                /\ exc' = [kind |-> "Exception", detail |-> "FileNotFoundError"]
                /\ UNCHANGED fs
    /\ UNCHANGED << callv, hostv, cwd, runs, pc, retries, redirection, streams, answers,
                    exit_status >>

(* -------------------- storage question and public IP ------------------- *)
\* src/main.py:94
AskMinioInstalled ==
    /\ pc = "L94"
    /\ \E a \in Answers :
        /\ events' = Append(events, Ev("prompt", << "L94" >>))
        /\ IF Recognised(a)
           THEN /\ is_minio_installed' = yes_or_no_question(a)
                /\ pc' = "L96"
                /\ retries' = 0
                /\ Say(PromptText("L94"))
           ELSE /\ retries < MaxRetries
                /\ retries' = retries + 1
                /\ Say(PromptText("L94") \o PleaseEnter)
                /\ UNCHANGED << is_minio_installed, pc >>
    /\ UNCHANGED << callv, hostv, fs, cwd, runs, stepv, redirection, stderr, twin_stderr,
                    use_ssh, install_path, default_public_ip, architecture,
                    supervisord_text, minio_username, minio_password,
                    twin_password, minio_hostname, exit_status >>

\* src/main.py:97: the request either raises or answers with a body, whose
\* last element is dropped
FetchPublicIp ==
    /\ pc = "L96"
    /\ phase = "action"
    /\ events' = Append(events, Ev("net", IpUrl))
    /\ phase' = "leaving"
    /\ \/ \E body \in IpBodies :
            /\ default_public_ip' = ButLast(body)
            /\ exc' = NoExc
       \/ /\ exc' = [kind |-> "Exception", detail |-> "MaxRetryError"]
          /\ UNCHANGED default_public_ip
    /\ UNCHANGED << callv, hostv, fs, cwd, runs, pc, retries, redirection, streams,
                    use_ssh, install_path, is_minio_installed, architecture,
                    supervisord_text, minio_username, minio_password,
                    twin_password, minio_hostname, exit_status >>

(* ---------------------- storage branch, lines 180-194 ------------------ *)
\* a renderer that appends the storage section whatever the answer
WithStorageSectionAlways(installed, text) == text \o supervisord_minio_text
\* src/main.py:180 and 184: the storage section is appended in the else branch
WithStorageSection(installed, text) ==
    IF installed THEN text ELSE text \o supervisord_minio_text

\* a branch that asks for the storage details whatever the answer
BranchTargetAlwaysAsk(installed, hasBinary) ==
    IF hasBinary THEN "L193" ELSE "L187"
\* a branch that takes the binary for present whenever it is to be provisioned
BranchTargetSkipDownload(installed, hasBinary) ==
    IF installed THEN "L196" ELSE "L193"
\* src/main.py:180-186: where control goes from the branch: to the hostname
\* prompt when storage is installed; otherwise to the credential prompts when
\* ./minio is a file already, and to the architecture prompt when it is not
BranchTarget(installed, hasBinary) ==
    IF installed THEN "L196" ELSE IF hasBinary THEN "L193" ELSE "L187"

\* src/main.py:180-186
StorageBranch ==
    /\ pc = "L180"
    /\ supervisord_text' = WithStorageSection(is_minio_installed, supervisord_text)
    /\ pc' = BranchTarget(is_minio_installed, fs[install_path].minio.kind = "file")
    /\ IF is_minio_installed
       THEN /\ minio_username' = <<>>
            /\ minio_password' = <<>>
            /\ twin_password' = <<>>
       ELSE /\ UNCHANGED << minio_username, minio_password, twin_password >>
    /\ UNCHANGED << callv, hostv, fs, cwd, runs, stepv, retries, redirection, streams,
                    use_ssh, install_path, is_minio_installed, default_public_ip,
                    architecture, minio_hostname, exit_status, events >>

\* src/main.py:187
AskArchitecture ==
    /\ pc = "L187"
    /\ \E a \in Architectures : architecture' = a
    /\ Say(PromptText("L187"))
    /\ events' = Append(events, Ev("prompt", << "L187" >>))
    /\ pc' = "L189"
    /\ UNCHANGED << callv, hostv, fs, cwd, runs, stepv, retries, redirection, stderr,
                    twin_stderr, use_ssh, install_path, is_minio_installed,
                    default_public_ip, supervisord_text, minio_username,
                    minio_password, twin_password, minio_hostname, exit_status >>

\* src/main.py:190
TouchMinio ==
    /\ pc = "L189"
    /\ phase = "action"
    /\ \/ /\ fs' = [fs EXCEPT ![install_path].minio = Touched(@, TouchMode, umask)]
          /\ events' = Append(events, Ev("fs", << "touch", "minio" >>))
          /\ phase' = "action2"
          /\ UNCHANGED exc
       \/ /\ exc' = [kind |-> "Exception", detail |-> "OSError"]
          /\ phase' = "leaving"
          /\ UNCHANGED << fs, events >>
    /\ UNCHANGED << callv, hostv, cwd, runs, pc, retries, redirection, streams, answers,
                    exit_status >>

\* a download that keeps the file empty when the answer is an error page
AcceptedIfBinary(body) == IF body = << "<Error>" >> THEN <<>> ELSE body
\* src/main.py:191: what of a response is handed to write_bytes: its data,
\* whatever the status and the content
Accepted(body) == body

\* src/main.py:191: the request is made first; its body, whatever it is, is
\* then written to the file
DownloadMinio ==
    /\ pc = "L189"
    /\ phase = "action2"
    /\ phase' = "leaving"
    /\ \/ \E body \in MinioBodies :
            /\ fs' = [fs EXCEPT ![install_path].minio =
                                    Written(@, Accepted(body), umask)]
            /\ events' = events \o << Ev("net", MinioUrl(architecture)),
                                      Ev("fs", << "write", "minio" >>) >>
            /\ exc' = NoExc
       \/ /\ exc' = [kind |-> "Exception", detail |-> "MaxRetryError"]
          /\ events' = Append(events, Ev("net", MinioUrl(architecture)))
          /\ UNCHANGED fs
    /\ UNCHANGED << callv, hostv, cwd, runs, pc, retries, redirection, streams, answers,
                    exit_status >>

\* src/main.py:193
AskUsername ==
    /\ pc = "L193"
    /\ \E v \in Values : minio_username' = v
    /\ Say(PromptText("L193"))
    /\ events' = Append(events, Ev("prompt", << "L193" >>))
    /\ pc' = "L194"
    /\ UNCHANGED << callv, hostv, fs, cwd, runs, stepv, retries, redirection, stderr,
                    twin_stderr, use_ssh, install_path, is_minio_installed,
                    default_public_ip, architecture, supervisord_text,
                    minio_password, twin_password, minio_hostname, exit_status >>

\* src/main.py:194
AskPassword ==
    /\ pc = "L194"
    /\ \E s \in Secrets :
        /\ minio_password' = s
        /\ twin_password' = TwinSecret(s)
        /\ stderr' = Emit(sys_stderr, stderr, GetpassWrites(PromptText("L194")[1], s))
        /\ twin_stderr' = Emit(sys_stderr, twin_stderr,
                               GetpassWrites(PromptText("L194")[1], TwinSecret(s)))
    /\ events' = Append(events, Ev("prompt", << "L194" >>))
    /\ pc' = "L196"
    /\ UNCHANGED << callv, hostv, fs, cwd, runs, stepv, retries, redirection, stdout,
                    twin_stdout, use_ssh, install_path, is_minio_installed,
                    default_public_ip, architecture, supervisord_text,
                    minio_username, minio_hostname, exit_status >>

(* --------------- hostname, rendering, writing, lines 196-212 ----------- *)
\* src/main.py:196
AskHostname ==
    /\ pc = "L196"
    /\ \E v \in Values : minio_hostname' = input_with_default(v, default_public_ip)
    /\ Say(PromptText("L196"))
    /\ events' = Append(events, Ev("prompt", << "L196" >>))
    /\ pc' = "L198"
    /\ UNCHANGED << callv, hostv, fs, cwd, runs, stepv, retries, redirection, stderr,
                    twin_stderr, use_ssh, install_path, is_minio_installed,
                    default_public_ip, architecture, supervisord_text,
                    minio_username, minio_password, twin_password, exit_status >>

\* src/main.py:198-203
Render ==
    /\ pc = "L198"
    /\ supervisord_text' = format_map(supervisord_text,
                               FormatArgs(minio_username, minio_password, minio_hostname))
    /\ events' = Append(events, Ev("render", << "L198" >>))
    /\ pc' = "L206"
    /\ UNCHANGED << callv, hostv, fs, cwd, runs, stepv, retries, redirection, streams,
                    use_ssh, install_path, is_minio_installed, default_public_ip,
                    architecture, minio_username, minio_password, twin_password,
                    minio_hostname, exit_status >>

\* src/main.py:205-206
TouchConf ==
    /\ pc = "L206"
    /\ \/ /\ fs' = [fs EXCEPT ![install_path].conf = Touched(@, TouchMode, umask)]
          /\ events' = Append(events, Ev("fs", << "touch", "supervisord.conf" >>))
          /\ pc' = "L207"
          /\ UNCHANGED << exit_status, stderr, twin_stderr >>
       \/ /\ Uncaught("OSError")
          /\ UNCHANGED << fs, events >>
    /\ UNCHANGED << callv, hostv, cwd, runs, stepv, retries, redirection, stdout,
                    twin_stdout, answers >>

\* src/main.py:207
WriteConf ==
    /\ pc = "L207"
    /\ \/ /\ fs' = [fs EXCEPT ![install_path].conf = Written(@, supervisord_text, umask)]
          /\ events' = Append(events, Ev("fs", << "write", "supervisord.conf" >>))
          /\ pc' = "L209"
          /\ UNCHANGED << exit_status, stderr, twin_stderr >>
       \/ /\ Uncaught("OSError")
          /\ UNCHANGED << fs, events >>
    /\ UNCHANGED << callv, hostv, cwd, runs, stepv, retries, redirection, stdout,
                    twin_stdout, answers >>

\* src/main.py:209-212
SuccessMessage ==
    << "Installation success! Run the following commands to start the vcc server: ",
       "    cd " >> \o install_path \o << "    supervisord", "    supervisorctl status" >>

\* src/main.py:209-212 and the end of the script
PrintSuccess ==
    /\ pc = "L209"
    /\ Say(SuccessMessage)
    /\ events' = Append(events, Ev("done", << "L212" >>))
    /\ pc' = "exit"
    /\ exit_status' = 0
    /\ UNCHANGED << callv, hostv, fs, cwd, runs, stepv, retries, redirection, stderr,
                    twin_stderr, answers >>

\* end of input at any prompt: input() / getpass() raise EOFError, which
\* nothing catches (every prompt is outside the steps)
PromptEof ==
    /\ pc \in PromptLines
    /\ events' = Append(events, Ev("prompt", << pc >>))
    /\ IF pc = "L194"
       THEN /\ stderr' = Emit(sys_stderr, stderr,
                    GetpassWrites(PromptText(pc)[1], <<>>) \o << "Traceback", "EOFError" >>)
            /\ twin_stderr' = Emit(sys_stderr, twin_stderr,
                    GetpassWrites(PromptText(pc)[1], <<>>) \o << "Traceback", "EOFError" >>)
            /\ UNCHANGED << stdout, twin_stdout >>
       ELSE /\ Say(PromptText(pc))
            /\ stderr' = Emit(sys_stderr, stderr, << "Traceback", "EOFError" >>)
            /\ twin_stderr' = Emit(sys_stderr, twin_stderr, << "Traceback", "EOFError" >>)
    /\ pc' = "exit"
    /\ exit_status' = ExitStatusOf("EOFError")
    /\ UNCHANGED << callv, hostv, fs, cwd, runs, stepv, retries, redirection, answers >>

(* ------------------------- the host between runs ----------------------- *)
\* the operator starts the installer again on the same host
Rerun ==
    /\ pc = "exit"
    /\ runs < MaxRuns
    /\ runs' = runs + 1
    /\ cwd' = Home
    /\ pc' = "L25"
    /\ phase' = "idle"
    /\ exc' = NoExc
    /\ retries' = 0
    /\ sys_stdout' = "real"
    /\ sys_stderr' = "real"
    /\ stdout' = <<>>
    /\ stderr' = <<>>
    /\ twin_stdout' = <<>>
    /\ twin_stderr' = <<>>
    /\ use_ssh' = FALSE
    /\ install_path' = <<>>
    /\ is_minio_installed' = FALSE
    /\ default_public_ip' = <<>>
    /\ architecture' = ""
    /\ supervisord_text' = supervisord_text_base
    /\ minio_username' = <<>>
    /\ minio_password' = <<>>
    /\ twin_password' = <<>>
    /\ minio_hostname' = <<>>
    /\ exit_status' = -1
    /\ events' = <<>>
    /\ UNCHANGED << callv, hostv, fs >>

\* the operator removes an installation root by hand, between runs
RemoveDir ==
    /\ pc = "exit"
    /\ \E p \in InstallPaths :
        /\ Exists(fs, p)
        /\ fs' = [fs EXCEPT ![p] = NoDir]
    /\ UNCHANGED << callv, hostv, cwd, runs, pc, stepv, retries, redirection, streams,
                    answers, exit_status, events >>

Next ==
    \/ CheckVersion
    \/ CheckPlatform
    \/ AskUseSsh
    \/ get_install_path
    \/ CheckNotInstalled
    \/ MakeInstallDir
    \/ StepEnter
    \/ RunTool
    \/ StepLeave
    \/ AskMinioInstalled
    \/ FetchPublicIp
    \/ StorageBranch
    \/ AskArchitecture
    \/ TouchMinio
    \/ DownloadMinio
    \/ AskUsername
    \/ AskPassword
    \/ AskHostname
    \/ Render
    \/ TouchConf
    \/ WriteConf
    \/ PrintSuccess
    \/ PromptEof
    \/ Rerun
    \/ RemoveDir

Spec == Init /\ [][Next]_vars

(* ------------- the prompt functions called alone, lines 12-23 ---------- *)
\* the longest sequence of lines typed at one yes/no prompt
MaxTyped == MaxRetries + 2
Scripts == UNION { [1..n -> Answers] : n \in 0..MaxTyped }
DefaultInputs == Values \cup PathInputs
Defaults == { <<>>, DefaultPath, << "203.0.113.", "7" >> }

\* a call of yes_or_no_question (pc L13) or of input_with_default (pc L22),
\* from the state the script is in before its first prompt
PromptInit ==
    /\ version_ok = TRUE
    /\ platform_linux = TRUE
    /\ umask = {}
    /\ fs = [p \in InstallPaths |-> NoDir]
    /\ runs = 1
    /\ cwd = Home
    /\ phase = "idle"
    /\ exc = NoExc
    /\ retries = 0
    /\ sys_stdout = "real"
    /\ sys_stderr = "real"
    /\ stdout = <<>>
    /\ stderr = <<>>
    /\ twin_stdout = <<>>
    /\ twin_stderr = <<>>
    /\ use_ssh = FALSE
    /\ install_path = <<>>
    /\ is_minio_installed = FALSE
    /\ default_public_ip = <<>>
    /\ architecture = ""
    /\ supervisord_text = supervisord_text_base
    /\ minio_username = <<>>
    /\ minio_password = <<>>
    /\ twin_password = <<>>
    /\ minio_hostname = <<>>
    /\ exit_status = -1
    /\ events = <<>>
    /\ returned = <<>>
    /\ \/ pc = "L13" /\ typed_lines \in Scripts /\ given_default = <<>>
       \/ /\ pc = "L22"
          /\ typed_lines \in { << v >> : v \in DefaultInputs }
          /\ given_default \in Defaults

\* src/main.py:13-19: one pass of the loop: the prompt is written, a line is
\* read and lowered; "y" returns True, "n" and the empty line return False,
\* anything else prints the reminder and loops
ReadYesOrNo ==
    /\ pc = "L13"
    /\ retries < Len(typed_lines)
    /\ LET a == typed_lines[retries + 1] IN
        IF Recognised(a)
        THEN /\ returned' = << yes_or_no_question(a) >>
             /\ pc' = "L15"
             /\ Say(YesNoPrompt("Use ssh for git clone?"))
             /\ UNCHANGED retries
        ELSE /\ retries' = retries + 1
             /\ Say(YesNoPrompt("Use ssh for git clone?") \o PleaseEnter)
             /\ UNCHANGED << returned, pc >>
    /\ UNCHANGED << hostv, fs, cwd, runs, stepv, redirection, stderr, twin_stderr,
                    answers, exit_status, events, typed_lines, given_default >>

\* src/main.py:13: input() at the end of the typed lines raises EOFError
EofYesOrNo ==
    /\ pc = "L13"
    /\ retries = Len(typed_lines)
    /\ Say(YesNoPrompt("Use ssh for git clone?"))
    /\ Uncaught("EOFError")
    /\ UNCHANGED << hostv, fs, cwd, runs, stepv, retries, redirection, answers,
                    events, callv >>

\* src/main.py:21-23
ReadWithDefault ==
    /\ pc = "L22"
    /\ returned' = << input_with_default(typed_lines[1], given_default) >>
    /\ Say(DefaultPrompt("Where do you want to install vcc?", given_default))
    /\ pc' = "L23"
    /\ UNCHANGED << hostv, fs, cwd, runs, stepv, retries, redirection, stderr,
                    twin_stderr, answers, exit_status, events, typed_lines,
                    given_default >>

PromptNext ==
    \/ ReadYesOrNo
    \/ EofYesOrNo
    \/ ReadWithDefault

PromptSpec == PromptInit /\ [][PromptNext]_vars

(* ============================== properties ============================= *)
Last(q) == q[Len(q)]
EndsWith(q, tail) ==
    Len(q) >= Len(tail) /\ SubSeq(q, Len(q) - Len(tail) + 1, Len(q)) = tail
IsPrefix(a, b) == Len(a) <= Len(b) /\ SubSeq(b, 1, Len(a)) = a
Happened(e) == \E i \in 1..Len(events) : events[i] = e
\* the lines of the steps begun so far, in order
RECURSIVE LinesOf(_, _)
LinesOf(es, kind) ==
    IF es = <<>> THEN <<>>
    ELSE (IF Head(es).k = kind THEN Head(es).v ELSE <<>>) \o LinesOf(Tail(es), kind)
StepOrder == << "L79", "L82", "L85", "L88", "L91", "L96", "L189" >>
\* what the process does to the world: tool runs, requests, file system writes
ExternalKinds == { "tool", "net", "fs" }

\* events of the step runner: steps begun and left, tool runs, requests
StepEvents == SelectSeq(events, LAMBDA e : e.k \in { "begin", "ok", "fail", "tool", "net" })
\* whether a sequence of step events is a run of whole steps, each of them
\* begin, at least one tool run or request, ok, in which only the last step
\* may be unfinished or failed; open is the line of the step that has begun
\* and called says whether its action has run a tool or made a request
RECURSIVE OneAtATime(_, _, _)
OneAtATime(es, open, called) ==
    IF es = <<>> THEN TRUE
    ELSE LET e == Head(es) IN
         CASE e.k = "begin" -> open = "" /\ OneAtATime(Tail(es), e.v[1], FALSE)
           [] e.k = "ok" -> open = e.v[1] /\ called /\ OneAtATime(Tail(es), "", FALSE)
           [] e.k = "fail" -> open = e.v[1] /\ Tail(es) = <<>>
           [] OTHER -> open # "" /\ OneAtATime(Tail(es), open, TRUE)

\* C1: the steps begin in their written order; a step begins only when no
\* other step is open, i.e. after every earlier step has run its tool or
\* request and has been left with " OK"; and a failed step is the last thing
\* the process does: it has exited with a nonzero status and no step, prompt
\* or file write follows the failure.
C1_StepsSequentialFailFast ==
    /\ IsPrefix(LinesOf(events, "begin"), StepOrder)
    /\ OneAtATime(StepEvents, "", FALSE)
    /\ \A i \in 1..Len(events) :
          events[i].k = "fail" => i = Len(events) /\ pc = "exit" /\ exit_status # 0

\* C1 witness: the third step failed after two steps succeeded
C1_Witness ==
    /\ pc = "exit"
    /\ Len(events) > 0
    /\ Last(events) = Ev("fail", << "L85" >>)
    /\ Happened(Ev("ok", << "L79" >>))
    /\ Happened(Ev("ok", << "L82" >>))

NoExternalCalls(es) == \A i \in 1..Len(es) : es[i].k \notin ExternalKinds

\* C2: a process that is at or before the already-installed check has done
\* nothing external (no tool run, no request, no file system write), and when
\* the resolved path exists at that check the very next step is the exit with
\* a nonzero status, with the file system exactly as it was.
C2_ExistingPathAborts ==
    [][ /\ pc' \in { "L25", "L28", "L33", "L58", "L59" } => NoExternalCalls(events')
        /\ (pc = "L59" /\ fs[install_path].kind # "absent")
            => /\ pc' = "exit"
               /\ exit_status' # 0
               /\ fs' = fs
               /\ NoExternalCalls(events')
               /\ Last(stderr') = "vcc has already been installed" ]_vars

\* C2 witness: a second run aborted at the check on the root the first run left
C2_Witness ==
    /\ pc = "exit"
    /\ runs = 2
    /\ exit_status = 1
    /\ stderr = << "vcc has already been installed" >>
    /\ fs[install_path].kind = "dir"
    /\ fs[install_path].ino = 1
    /\ NoExternalCalls(events)

\* the configuration file of this run has been written
ConfWritten == Happened(Ev("fs", << "write", "supervisord.conf" >>))
ConfData == fs[install_path].conf.data
FixedSections == { "[supervisord]", "[program:vcc_rpc]", "[program:login]",
                   "[program:chat]", "[program:file]", "[program:record]",
                   "[program:web]" }

\* C3: in a run that has written the configuration, the written text has the
\* [program:minio] section exactly once if the operator answered that
\* storage is not installed and not at all otherwise, and has the supervisord
\* section and the vcc_rpc, login, chat, file, record and web program
\* sections exactly once for both answers.
C3_StorageSectionIffNotInstalled ==
    (ConfWritten /\ Exists(fs, install_path)) =>
        /\ Count(ConfData, { "[program:minio]" }) = (IF is_minio_installed THEN 0 ELSE 1)
        /\ \A sec \in FixedSections : Count(ConfData, { sec }) = 1

\* C3 witness: a finished run with the storage section in the file
C3_Witness ==
    /\ pc = "exit"
    /\ exit_status = 0
    /\ ~is_minio_installed
    /\ ConfWritten
    /\ Exists(fs, install_path)
    /\ Contains(ConfData, { "[program:minio]" })

\* format_map has run in this process
Rendered == Happened(Ev("render", << "L198" >>))
\* the environment entries as they have to read with the values put in verbatim
EnvEntries(user, password, host) ==
    << "MINIO_ROOT_USER=" >> \o user \o << "MINIO_ROOT_PASSWORD=" >> \o password
    \o << "MINIO_URL=" >> \o host \o << ":9000", "MINIO_ACCESS=" >> \o user
    \o << "MINIO_SECRET=" >> \o password
NonEnvChunks == Len(supervisord_text_base) - 13

\* C4 as claimed: once rendered, the text contains no replacement-field
\* marker at all, whatever the operator typed.
C4_NoMarkerRemains ==
    Rendered => ~Contains(supervisord_text, Markers)

\* C4 as amended: once rendered, each field of the environment line holds
\* its value verbatim (username twice, password twice, hostname once), the
\* six interpreter fields hold the interpreter path, nothing else changed
\* length, and the only markers left in the text are the ones the operator
\* typed inside the values.
C4_EachFieldOnceVerbatim ==
    Rendered =>
        LET env == EnvEntries(minio_username, minio_password, minio_hostname)
            t == supervisord_text
            rest == SubSeq(t, 3 + Len(env), Len(t))
        IN /\ SubSeq(t, 1, 2) = << "[unix_http_server]", "[supervisord]" >>
           /\ SubSeq(t, 3, 2 + Len(env)) = env
           /\ Count(rest, Markers) = 0
           /\ Count(rest, { sys_executable[1] }) = 6
           /\ Len(rest) = NonEnvChunks + (IF is_minio_installed THEN 0 ELSE 2)
           /\ Count(t, Markers) = 2 * Count(minio_username, Markers)
                                  + 2 * Count(minio_password, Markers)
                                  + Count(minio_hostname, Markers)

\* C4 witness: a username that reads like the hostname field was rendered
C4_Witness ==
    /\ Rendered
    /\ minio_username = << "{IP}", "a" >>
    /\ minio_hostname = << "a" >>
    /\ Contains(supervisord_text, { "{IP}" })

\* C5: the chunk that only a password can contain is on neither stream and
\* in no downloaded binary, and both streams read exactly as they do in the
\* twin run, which was given a different password.
C5_SecretNeverOnStreams ==
    /\ ~Contains(stdout, SecretOnly)
    /\ ~Contains(stderr, SecretOnly)
    /\ stdout = twin_stdout
    /\ stderr = twin_stderr
    /\ \A p \in InstallPaths : ~Contains(fs[p].minio.data, SecretOnly)

\* C5 witness: a finished run whose password is in the written file
C5_Witness ==
    /\ pc = "exit"
    /\ exit_status = 0
    /\ minio_password = << "p" >>
    /\ twin_password # minio_password
    /\ Exists(fs, install_path)
    /\ Contains(ConfData, SecretOnly)

(* ------------------------- workflow states ----------------------------- *)
StepStage(line) ==
    CASE line = "L79" -> "CLONE_ARTIFACT_A"
      [] line = "L82" -> "INSTALL_DEPS_A"
      [] line = "L85" -> "CLONE_ARTIFACT_B"
      [] line = "L88" -> "INSTALL_DEPS_B"
      [] line = "L91" -> "INSTALL_SUPERVISOR_TOOL"
      [] line = "L96" -> "FETCH_PUBLIC_IP"
      [] OTHER -> "DOWNLOAD_BINARY"
\* the workflow state an event belongs to ("" for the calls made inside a step)
StageOf(e) ==
    CASE e.k = "init" -> "INIT"
      [] e.k = "prompt" ->
            (CASE e.v[1] = "L33" -> "COLLECT_TRANSPORT_PREF"
               [] e.v[1] = "L58" -> "RESOLVE_AND_CREATE_DIR"
               [] e.v[1] = "L196" -> "COLLECT_HOSTNAME"
               [] OTHER -> "COLLECT_STORAGE_PREFS")
      [] e.k \in { "begin", "ok", "fail" } -> StepStage(e.v[1])
      [] e.k = "fs" ->
            (CASE e.v[1] = "mkdir" -> "RESOLVE_AND_CREATE_DIR"
               [] e.v[2] = "minio" -> "DOWNLOAD_BINARY"
               [] OTHER -> "WRITE_CONFIG")
      [] e.k = "render" -> "RENDER_CONFIG"
      [] e.k = "done" -> "DONE"
      [] OTHER -> ""
\* the workflow states in the order the process entered them
RECURSIVE VisitsFrom(_, _)
VisitsFrom(es, last) ==
    IF es = <<>> THEN <<>>
    ELSE LET st == StageOf(Head(es)) IN
         IF st = "" \/ st = last THEN VisitsFrom(Tail(es), last)
         ELSE << st >> \o VisitsFrom(Tail(es), st)
Visits == VisitsFrom(events, "")
UpToStoragePrefs ==
    << "INIT", "COLLECT_TRANSPORT_PREF", "RESOLVE_AND_CREATE_DIR",
       "CLONE_ARTIFACT_A", "INSTALL_DEPS_A", "CLONE_ARTIFACT_B", "INSTALL_DEPS_B",
       "INSTALL_SUPERVISOR_TOOL", "COLLECT_STORAGE_PREFS" >>
ClaimedOrder(download) ==
    UpToStoragePrefs \o (IF download THEN << "DOWNLOAD_BINARY" >> ELSE <<>>)
    \o << "COLLECT_HOSTNAME", "FETCH_PUBLIC_IP", "RENDER_CONFIG", "WRITE_CONFIG", "DONE" >>
Succeeded == pc = "exit" /\ exit_status = 0

\* C6 as claimed: a successful run visits the workflow states in the order
\* of the state machine, with the public-IP fetch after the optional binary
\* download and after the hostname prompt.
C6_ClaimedOrder ==
    Succeeded => Visits \in { ClaimedOrder(TRUE), ClaimedOrder(FALSE) }

\* C6 as amended: a successful run visits the states up to the storage
\* question in the claimed order, then fetches the public IP, then, when
\* storage is not installed, asks the architecture, downloads the binary and
\* asks the credentials, then asks the hostname, renders, writes and is done.
C6_ActualOrder ==
    Succeeded =>
        Visits = UpToStoragePrefs \o << "FETCH_PUBLIC_IP" >>
                 \o (IF is_minio_installed THEN <<>>
                     ELSE << "COLLECT_STORAGE_PREFS", "DOWNLOAD_BINARY",
                             "COLLECT_STORAGE_PREFS" >>)
                 \o << "COLLECT_HOSTNAME", "RENDER_CONFIG", "WRITE_CONFIG", "DONE" >>

\* C6 witness: a successful run that downloaded the binary
C6_Witness ==
    /\ Succeeded
    /\ ~is_minio_installed
    /\ Happened(Ev("ok", << "L189" >>))
    /\ Happened(Ev("ok", << "L96" >>))

\* the step runner left a step whose action had raised, and the process is gone
StepFailed == pc = "exit" /\ exc.kind # "none"
ErrorMarker == { " ERROR: e=" }

\* C7 as claimed: whenever a step's action fails, by a tool's nonzero exit
\* status or by an exception, the ERROR marker with the failure detail is on
\* the real error stream, that step has no success marker, and the exit
\* status is nonzero.
C7_MarkerOnEveryFailure ==
    StepFailed =>
        /\ EndsWith(stderr, << " ERROR: e=", exc.detail >>)
        /\ Last(stdout) = Label(Last(events).v[1])
        /\ exit_status # 0

\* C7 as amended: whenever a step's action fails, both streams are the real
\* ones again, the last thing on the output stream is the step's label (no
\* success marker), the exit status is 1, and the error stream ends with the
\* failure report: the ERROR marker followed by the exception's detail when
\* the action raised an exception, and only the fixed message of the tool
\* helper, without any ERROR marker, when a tool exited with nonzero status.
C7_FailureReported ==
    StepFailed =>
        LET line == Last(events).v[1] IN
        /\ Last(events) = Ev("fail", << line >>)
        /\ sys_stdout = "real"
        /\ sys_stderr = "real"
        /\ Last(stdout) = Label(line)
        /\ exit_status = 1
        /\ exc.kind = "Exception" =>
              /\ stderr = << " ERROR: e=", exc.detail >>
        /\ exc.kind = "SystemExit" =>
              /\ stderr = << exc.detail >>
              /\ exc.detail = FailMsg(line)
              /\ line \in ToolLines
              /\ Count(stderr, ErrorMarker) = 0

\* C7 witness: git clone exited with a nonzero status
C7_Witness ==
    /\ StepFailed
    /\ exc.kind = "SystemExit"
    /\ stderr = << "git clone failed" >>
    /\ Last(events) = Ev("fail", << "L79" >>)

\* C8: an installation root changes only in three ways: the operator removes
\* it between runs, the process at line 61 creates it where nothing was, or
\* the process that created it adds to it; so a root left by an earlier run,
\* or by a failed one, is never modified or cleaned up by the installer.  A
\* step into a failed exit and the start of a new run leave the file system
\* as it is.  The check at line 59 exits exactly when the path exists and
\* goes on to create the root exactly when it does not.
C8_NoRollbackGuardBlocks ==
    [][ /\ \A p \in InstallPaths :
              fs'[p] # fs[p] =>
                 \/ pc = "exit" /\ pc' = "exit" /\ fs'[p] = NoDir
                 \/ /\ pc = "L61" /\ p = install_path
                    /\ fs[p].kind = "absent" /\ fs'[p].ino = runs
                 \/ /\ pc # "exit" /\ p = install_path
                    /\ fs[p].kind = "dir" /\ fs[p].ino = runs
                    /\ fs'[p].kind = "dir" /\ fs'[p].ino = runs
                    /\ fs[p].kids \subseteq fs'[p].kids
                    /\ fs[p].minio.kind = "file" => fs'[p].minio.kind = "file"
        /\ (pc # "exit" /\ pc' = "exit" /\ exit_status' # 0) => fs' = fs
        /\ runs' # runs => fs' = fs
        /\ pc = "L59" =>
              pc' = (IF fs[install_path].kind = "dir" THEN "exit" ELSE "L61") ]_vars

\* C8 witness: the second run was stopped by the root a failed first run left
C8_Witness ==
    /\ runs = 2
    /\ pc = "exit"
    /\ exit_status = 1
    /\ stderr = << "vcc has already been installed" >>
    /\ fs[install_path].ino = 1
    /\ fs[install_path].kids = { "vcc_rpc" }
    /\ fs[install_path].conf.kind = "absent"

\* C9: after every step, an installation root made by the installer has mode
\* 0o700, its minio file and its supervisord.conf, when they exist, have mode
\* 0o700 (so no state has content in them under a mode with a group or other
\* bit), each of the two files comes into being empty, and neither the mode
\* of a file nor the mode of the root ever changes afterwards.
C9_OwnerOnlyModes ==
    [][ \A p \in InstallPaths :
          LET d == fs'[p] IN
          /\ (d.kind = "dir" /\ d.ino > 0) =>
                /\ d.mode = OwnerRWX
                /\ d.mode \cap GroupOther = {}
          /\ (d.kind = "dir" /\ fs[p].kind = "dir") => d.mode = fs[p].mode
          /\ d.minio.kind = "file" =>
                /\ d.minio.mode = OwnerRWX
                /\ d.minio.mode \cap GroupOther = {}
                /\ fs[p].minio.kind = "absent" => d.minio.data = <<>>
          /\ d.conf.kind = "file" =>
                /\ d.conf.mode = OwnerRWX
                /\ d.conf.mode \cap GroupOther = {}
                /\ fs[p].conf.kind = "absent" => d.conf.data = <<>> ]_vars

\* C9 witness: both files hold content, under the umask that removes nothing
C9_Witness ==
    /\ umask = {}
    /\ Exists(fs, DefaultPath)
    /\ fs[DefaultPath].minio.data # <<>>
    /\ fs[DefaultPath].conf.data # <<>>
    /\ fs[DefaultPath].minio.mode = OwnerRWX
    /\ fs[DefaultPath].conf.mode = OwnerRWX

AlwaysRunLines == { "L79", "L82", "L85", "L88", "L91", "L96" }

\* C10: a process that has exited has status 0 or 1; the status is 0 exactly
\* when the last thing it did was to print the success message at the end of
\* the script, and then every step it had to run was left with " OK" (the
\* download too when storage is not installed), no step failed and the
\* configuration file was written; with status 1 the configuration file was
\* not written by this process.
C10_ExitStatus ==
    pc = "exit" =>
        /\ exit_status \in { 0, 1 }
        /\ exit_status = 0 <=> (Len(events) > 0 /\ Last(events).k = "done")
        /\ exit_status = 0 =>
              /\ ConfWritten
              /\ \A line \in AlwaysRunLines : Happened(Ev("ok", << line >>))
              /\ ~is_minio_installed => Happened(Ev("ok", << "L189" >>))
              /\ \A i \in 1..Len(events) : events[i].k # "fail"
        /\ exit_status # 0 => ~ConfWritten

\* C10 witness: a finished run that did not need the download
C10_Witness ==
    /\ pc = "exit"
    /\ exit_status = 0
    /\ is_minio_installed
    /\ ConfWritten
    /\ ~Happened(Ev("begin", << "L189" >>))


(* ------------------------------- C11 ----------------------------------- *)
\* C11: when the interpreter is older than 3.10 or the platform is not
\* linux, the run ends at the check that fails, with the message of that
\* check on the error stream and status 1, and nothing else has happened:
\* no prompt was shown, nothing was printed, no tool was started, no request
\* was made, and no directory or file was created on the host.
C11_AbortBeforeAnyAction ==
    (~version_ok \/ ~platform_linux) =>
        /\ pc \in (IF version_ok THEN { "L25", "L28", "exit" } ELSE { "L25", "exit" })
        /\ \A i \in 1..Len(events) : events[i].k = "init"
        /\ stdout = <<>>
        /\ sys_stdout = "real" /\ sys_stderr = "real"
        /\ \A p \in InstallPaths : fs[p] \in { NoDir, ForeignDir }
        /\ pc = "exit" =>
              /\ exit_status = 1
              /\ stderr = IF version_ok THEN << "vcc requires linux" >>
                          ELSE << "vcc requires at least python3.10" >>
        /\ pc # "exit" => stderr = <<>> /\ exit_status = -1

\* a supported interpreter on an unsupported platform: the run has ended at
\* the platform check
C11_Witness ==
    /\ version_ok /\ ~platform_linux
    /\ pc = "exit"
    /\ stderr = << "vcc requires linux" >>

(* ------------------------------- C12 ----------------------------------- *)
\* C12: whenever the operator answered that storage is installed, the storage
\* username and password are both empty, and the credential entries of the
\* rendered environment line are empty strings; a credential is non-empty
\* only in a run where the operator answered that storage is not installed
\* and was asked for it, and the rendered entries then hold the entered
\* values verbatim.
C12_CredentialsFollowAnswer ==
    /\ is_minio_installed => minio_username = <<>> /\ minio_password = <<>>
    /\ minio_username # <<>> =>
          ~is_minio_installed /\ Happened(Ev("prompt", << "L193" >>))
    /\ minio_password # <<>> =>
          ~is_minio_installed /\ Happened(Ev("prompt", << "L194" >>))
    /\ Rendered =>
          LET entries == IF is_minio_installed
                         THEN EnvEntries(<<>>, <<>>, minio_hostname)
                         ELSE EnvEntries(minio_username, minio_password, minio_hostname)
          IN  /\ Len(supervisord_text) >= 2 + Len(entries)
              /\ SubSeq(supervisord_text, 3, 2 + Len(entries)) = entries

\* storage was declared installed and the configuration has been written
C12_Witness ==
    /\ is_minio_installed
    /\ ConfWritten
    /\ Exists(fs, install_path)
    /\ SubSeq(ConfData, 3, 9) = << "MINIO_ROOT_USER=", "MINIO_ROOT_PASSWORD=",
                                   "MINIO_URL=", "203.0.113.", "7", ":9000",
                                   "MINIO_ACCESS=" >>

(* ------------------------------- C13 ----------------------------------- *)
\* a response body with its trailing newline removed: a body that does not
\* end in a newline is left as it is
WithoutTrailingNewline(body) ==
    IF body # <<>> /\ Last(body) = "\n" THEN ButLast(body) ELSE body

\* C13: the hostname prompt is reached only after the public-IP step has
\* completed successfully; the default host value that step leaves is the
\* response body with its trailing newline removed; the host value taken
\* from the prompt is that default when the operator enters nothing and the
\* entered text verbatim otherwise.
C13_HostDefaultsToFetchedIp ==
    [][ /\ (pc = "L96" /\ phase = "action" /\ exc'.kind = "none") =>
              default_public_ip' \in { WithoutTrailingNewline(b) : b \in IpBodies }
        /\ (pc = "L196" /\ pc' = "L198") =>
              /\ Happened(Ev("ok", << "L96" >>))
              /\ minio_hostname' \in { default_public_ip } \cup (Values \ { <<>> })
      ]_vars

(* ---------------------------- C14 and C15 ------------------------------ *)
YesAnswers == { "y", "Y" }
NoAnswers == { "n", "N", "" }
\* what the yes/no prompt has written after n unrecognised lines
RECURSIVE Reminded(_)
Reminded(n) ==
    IF n = 0 THEN <<>>
    ELSE Reminded(n - 1) \o << "Use ssh for git clone?", " (y/N): ",
                                "Please enter y or n. " >>

\* C14: the yes/no prompt returns true exactly for the lines "y" and "Y" and
\* false exactly for "n", "N" and the empty line; on any other line it does
\* not return but writes the reminder and asks again, however many such lines
\* come; so the result is the one of the first recognised line.
C14_YesNoTotalOnRecognised ==
    [][ /\ (pc = "L13" /\ retries < Len(typed_lines)) =>
              LET a == typed_lines[retries + 1] IN
              /\ a \in YesAnswers => pc' = "L15" /\ returned' = << TRUE >>
              /\ a \in NoAnswers => pc' = "L15" /\ returned' = << FALSE >>
              /\ a \notin YesAnswers \cup NoAnswers =>
                    /\ pc' = "L13" /\ returned' = <<>>
                    /\ retries' = retries + 1
                    /\ stdout' = Reminded(retries + 1)
        /\ pc' = "L15" =>
              /\ \A i \in 1..retries' : typed_lines'[i] \notin YesAnswers \cup NoAnswers
              /\ typed_lines'[retries' + 1] \in YesAnswers \cup NoAnswers
              /\ returned' = << typed_lines'[retries' + 1] \in YesAnswers >>
      ]_vars

\* the prompt returned true on "Y" after the largest number of unrecognised
\* lines
C14_Witness ==
    /\ pc = "L15"
    /\ retries = MaxTyped - 1
    /\ typed_lines[MaxTyped] = "Y"
    /\ returned = << TRUE >>

\* C15: the value-with-default prompt returns the default unchanged when the
\* operator enters nothing, and the entered text exactly for every non-empty
\* entry.
C15_DefaultOnlyOnEmpty ==
    pc = "L23" =>
        /\ typed_lines[1] = <<>> => returned = << given_default >>
        /\ typed_lines[1] # <<>> => returned = << typed_lines[1] >>

\* a non-empty entry was returned in place of a non-empty default
C15_Witness ==
    /\ pc = "L23"
    /\ typed_lines = << << "{IP}", "a" >> >>
    /\ given_default = DefaultPath
    /\ returned = << << "{IP}", "a" >> >>

(* ------------------------------- C16 ----------------------------------- *)
InsideStep == pc \in StepLines /\ phase # "idle"

\* C16: output is suppressed exactly while the action of a step runs.  The
\* label of a step reaches the real output stream before the redirection
\* starts; both streams are redirected in every state inside a step and in
\* no other state; nothing reaches the real streams while the action runs;
\* the redirection is undone when the step is left, by a normal return, an
\* exception or the exit of a failed tool alike, so that the OK marker and
\* the failure report reach the real streams, as does every later prompt.
C16_SuppressionScopedToStep ==
    [][ /\ sys_stdout' = (IF InsideStep' THEN "devnull" ELSE "real")
        /\ sys_stderr' = (IF InsideStep' THEN "devnull" ELSE "real")
        /\ (~InsideStep /\ InsideStep') =>
              stdout' = stdout \o << Label(pc) >> /\ stderr' = stderr
        /\ (InsideStep /\ InsideStep') => stdout' = stdout /\ stderr' = stderr
        /\ (InsideStep /\ ~InsideStep') =>
              IF exc.kind = "none"
              THEN stdout' = stdout \o << " OK" >> /\ stderr' = stderr
              ELSE /\ stdout' = stdout
                   /\ Len(stderr') > Len(stderr)
                   /\ Last(stderr') = exc.detail
        /\ (pc \in PromptLines /\ ~UNCHANGED events) =>
              stdout \o stderr # stdout' \o stderr'
      ]_vars

\* a step whose action raised has been left: the report is on the real error
\* stream and neither stream is redirected any more
C16_Witness ==
    /\ pc = "exit"
    /\ Happened(Ev("fail", << "L96" >>))
    /\ sys_stdout = "real" /\ sys_stderr = "real"
    /\ stderr = << " ERROR: e=", "MaxRetryError" >>

(* ------------------------------- C17 ----------------------------------- *)
\* a step of the installer process itself (the operator's actions between
\* runs left out)
ProcessNext ==
    \/ CheckVersion \/ CheckPlatform \/ AskUseSsh \/ get_install_path
    \/ CheckNotInstalled \/ MakeInstallDir \/ StepEnter \/ RunTool \/ StepLeave
    \/ AskMinioInstalled \/ FetchPublicIp \/ StorageBranch \/ AskArchitecture
    \/ TouchMinio \/ DownloadMinio \/ AskUsername \/ AskPassword \/ AskHostname
    \/ Render \/ TouchConf \/ WriteConf \/ PrintSuccess \/ PromptEof
\* a step that ends the run in FAILED
FailStep == ProcessNext /\ pc' = "exit" /\ exit_status' # 0
\* a step in which the action of a print_text step raises
RaiseStep == ProcessNext /\ exc'.kind # "none"
\* a step that goes on with the run
GoOnStep == ProcessNext /\ pc' # "exit"
Failed == pc = "exit" /\ exit_status # 0
\* FAILED can be entered from the workflow state the process is in: by end of
\* input at a prompt, by the action of a step raising (the step then fails
\* when it is left), by the directory guard, or while the configuration file
\* is created and written
FailureAhead ==
    /\ pc \in PromptLines => ENABLED FailStep
    /\ (pc \in StepLines /\ phase \in { "action", "action2" }) => ENABLED RaiseStep
    /\ (pc \in StepLines /\ phase = "leaving" /\ exc.kind # "none") =>
          ENABLED FailStep /\ ~ENABLED GoOnStep
    /\ pc \in { "L206", "L207" } => ENABLED FailStep
    /\ pc = "L25" => (ENABLED FailStep <=> ~version_ok)
    /\ pc = "L28" => (ENABLED FailStep <=> ~platform_linux)
    /\ pc = "L59" => (ENABLED FailStep <=> Exists(fs, install_path))
    /\ pc = "L61" => (ENABLED FailStep <=> ~ParentExists(install_path))
Terminal == pc = "exit" => exit_status \in { 0, 1 } /\ ~ENABLED ProcessNext

\* C17 as claimed: FAILED is terminal with a nonzero status, and it can be
\* entered from every workflow state that is not terminal: from the prompts,
\* from the steps, from the writing of the configuration, and from the
\* rendering of the configuration.
C17_FailedFromEveryState ==
    /\ Terminal
    /\ Failed => exit_status = 1
    /\ FailureAhead
    /\ pc = "L198" => ENABLED FailStep

\* C17 as amended: FAILED is terminal with a nonzero status and can be
\* entered from every workflow state that is not terminal except the
\* rendering of the configuration, which always goes on to the writing of
\* the configuration.
C17_FailedFromEveryStateButRender ==
    /\ Terminal
    /\ Failed => exit_status = 1
    /\ FailureAhead
    /\ pc = "L198" => ~ENABLED FailStep /\ ENABLED (ProcessNext /\ pc' = "L206")

\* the run failed while the configuration file was being written
C17_Witness ==
    /\ Failed
    /\ Rendered
    /\ Happened(Ev("fs", << "touch", "supervisord.conf" >>))
    /\ ~ConfWritten
    /\ ~ENABLED ProcessNext

(* ------------------------------- C18 ----------------------------------- *)
\* the request of the download step as it has to read for the typed token
TypedArchUrl ==
    << "https://dl.min.io/server/minio/release/linux-", architecture, "/minio" >>
MinioFile == fs[install_path].minio
EmptyExecutable ==
    MinioFile.kind = "file" /\ MinioFile.data = <<>> /\ "ox" \notin MinioFile.mode
    /\ "ux" \in MinioFile.mode

FirstAt(e) ==
    IF Happened(e) THEN CHOOSE i \in 1..Len(events) :
                            events[i] = e /\ \A j \in 1..(i - 1) : events[j] # e
    ELSE 0
StorageSectionWritten ==
    ConfWritten /\ Exists(fs, install_path) /\ Contains(ConfData, { "[program:minio]" })

\* C19: the storage binary is never found present by the guard of line 186.
\* In a run in which the operator answered that storage is not installed,
\* the architecture prompt and the download step come before the credential
\* prompts; in a run in which the answer was that it is installed, neither
\* takes place.  So whenever a configuration with the storage section has
\* been written, the binary file is in the installation root.
C19_GuardNeverSkipsDownload ==
    /\ pc = "L180" => fs[install_path].minio.kind # "file"
    /\ Happened(Ev("prompt", << "L193" >>)) =>
          /\ ~is_minio_installed
          /\ 0 < FirstAt(Ev("prompt", << "L187" >>))
          /\ FirstAt(Ev("prompt", << "L187" >>)) < FirstAt(Ev("begin", << "L189" >>))
          /\ FirstAt(Ev("begin", << "L189" >>)) < FirstAt(Ev("ok", << "L189" >>))
          /\ FirstAt(Ev("ok", << "L189" >>)) < FirstAt(Ev("prompt", << "L193" >>))
    /\ (is_minio_installed /\ Happened(Ev("ok", << "L96" >>))) =>
          /\ ~Happened(Ev("prompt", << "L187" >>))
          /\ ~Happened(Ev("begin", << "L189" >>))
          /\ architecture = ""
    /\ (pc \in { "L196", "L198", "L206", "L207", "L209" } /\ ~is_minio_installed) =>
          Happened(Ev("ok", << "L189" >>))
    /\ StorageSectionWritten => fs[install_path].minio.kind = "file"

\* a configuration with the storage section has been written and the binary
\* is in the installation root
C19_Witness ==
    /\ StorageSectionWritten
    /\ Succeeded
    /\ fs[install_path].minio.data = << "ELF" >>

(* ------------------------------- C20 ----------------------------------- *)
\* the run under the assumptions of the claim: a prompt that waits is
\* answered (with a recognised line after at most MaxRetries others, or with
\* end of input), an external call that was started returns or raises, and
\* the interpreter goes on with the next statement
LiveSpec == Init /\ [][Next]_vars /\ WF_vars(ProcessNext)

Done == pc = "exit" /\ exit_status = 0 /\ Happened(Ev("done", << "L212" >>))

\* C20: every run ends, in DONE or in FAILED, provided every prompt is
\* eventually answered and every external call eventually returns or raises.
C20_Terminates == (pc # "exit") ~> (Done \/ Failed)

\* a run has ended in DONE after an unrecognised answer was given to a
\* yes/no prompt
C20_Witness ==
    /\ Done
    /\ Contains(stdout, { "Please enter y or n. " })

====
